---- MODULE Spec2Model ----
(***************************************************************************)
(* CHIMERA hybrid swap program: the opcode dispatch of lib.rs and the two  *)
(* transaction assemblers, swap_inscription_rune and swap_rune_inscription.*)
(* One call of process_instruction is followed statement by statement,     *)
(* from the instruction buffer to the hand-off to set_transaction_to_sign. *)
(*                                                                         *)
(* Byte buffers are sequences of naturals ("words"): one word stands for   *)
(* one fixed-width field (a u8, a u32 length prefix, a u32 sequence ...).  *)
(* A transaction id string is the sequence of its characters, a character  *)
(* being its hexadecimal value (0..15) or NonHex for any other character.  *)
(***************************************************************************)
EXTENDS Naturals, Sequences, FiniteSets

VARIABLES
    pc,               \* position of the call in the code
    accounts,         \* accounts: &[AccountInfo], as the sequence of their keys
    instruction_data, \* instruction_data: &[u8]
    params,           \* the decoded SwapInscriptionRuneParams / SwapRuneInscriptionParams
    user_swap_tx,     \* the decoded user transaction
    tx,               \* the transaction under construction
    i,                \* position of the running for loop
    user_input_count, \* swap_rune_inscription's counter of copied user inputs
    inputs_to_sign,   \* swap_rune_inscription's Vec<InputToSign>
    signed,           \* what set_transaction_to_sign received, one entry per call of it
    called,           \* the functions entered so far, in order
    log,              \* the msg! lines written so far
    result            \* "pending", "Ok", "Err(Custom(501))", "Err(InvalidArgument)" or "panic"

vars == <<pc, accounts, instruction_data, params, user_swap_tx, tx, i,
          user_input_count, inputs_to_sign, signed, called, log, result>>

----------------------------------------------------------------------------
(* Bounds of the model                                                     *)

\* bytes of a transaction id (32 in bitcoin), scaled down
HashLen == 2
\* the largest value of a sequence word (0xFFFFFFFF in bitcoin), scaled down
MaxWord == 255
\* the user transactions tried have 0..MaxUserIn inputs
MaxUserIn == 2
\* the user transactions tried have 0..MaxUserOut outputs
MaxUserOut == 2
\* the rune parameters tried have 0..MaxRunes txids and 0..MaxRunes+1 vouts
MaxRunes == 2

----------------------------------------------------------------------------
(* bitcoin types built by the assemblers                                   *)

\* Version::TWO
VersionTWO == 2

\* LockTime::ZERO
LockTimeZERO == 0

\* Sequence::MAX
SequenceMAX == MaxWord

\* ScriptBuf::new()
ScriptBufNew == <<>>

\* Witness::new()
WitnessNew == <<>>

\* Transaction { version: Version::TWO, lock_time: LockTime::ZERO, input: vec![], output: vec![] }
NewTransaction ==
    [version |-> VersionTWO, lock_time |-> LockTimeZERO, input |-> <<>>, output |-> <<>>]

\* a custodial input that always spends output 0
CustodialTxInVoutZero(txid, vout) ==
    [previous_output |-> [txid |-> txid, vout |-> 0],
     script_sig |-> ScriptBufNew,
     sequence |-> SequenceMAX,
     witness |-> WitnessNew]

\* TxIn { previous_output: OutPoint { txid, vout }, script_sig: ScriptBuf::new(),
\*        sequence: Sequence::MAX, witness: Witness::new() }
CustodialTxIn(txid, vout) ==
    [previous_output |-> [txid |-> txid, vout |-> vout],
     script_sig |-> ScriptBufNew,
     sequence |-> SequenceMAX,
     witness |-> WitnessNew]

\* InputToSign { index, signer }
InputToSign(index, signer) == [index |-> index, signer |-> signer]

----------------------------------------------------------------------------
(* Readers over a buffer b from position p (1-based).  A reader returns    *)
(* [ok, pos, val]: whether it succeeded, the position after what it read,  *)
(* and what it read.                                                       *)

Fail == [ok |-> FALSE, pos |-> 0, val |-> <<>>]

ReadWord(b, p) ==
    IF p >= 1 /\ p <= Len(b)
    THEN [ok |-> TRUE, pos |-> p + 1, val |-> b[p]]
    ELSE Fail

\* n words
ReadBytes(b, p, n) ==
    IF p >= 1 /\ p + n - 1 <= Len(b)
    THEN [ok |-> TRUE, pos |-> p + n, val |-> SubSeq(b, p, p + n - 1)]
    ELSE Fail

\* a length word, then that many words
ReadVec(b, p) ==
    LET n == ReadWord(b, p) IN
    IF ~n.ok THEN Fail ELSE ReadBytes(b, n.pos, n.val)

RECURSIVE Concat(_)
Concat(ss) == IF ss = <<>> THEN <<>> ELSE Head(ss) \o Concat(Tail(ss))

WriteVec(s) == <<Len(s)>> \o s

----------------------------------------------------------------------------
(* Txid::from_str: 2*HashLen hexadecimal characters, the bytes stored in   *)
(* the reverse of the order they are written in.                           *)

NonHex == 16

TxidFromStr(s) ==
    IF Len(s) = 2 * HashLen /\ \A k \in 1..Len(s) : s[k] < NonHex
    THEN [ok |-> TRUE,
          val |-> [j \in 1..HashLen |->
                      16 * s[2 * (HashLen + 1 - j) - 1] + s[2 * (HashLen + 1 - j)]]]
    ELSE [ok |-> FALSE, val |-> <<>>]

----------------------------------------------------------------------------
(* bitcoin::consensus::serialize / deserialize of a Transaction:           *)
(*   version, input count, inputs (txid, vout, script_sig, sequence),      *)
(*   output count, outputs (value, script_pubkey), one witness per input,  *)
(*   lock_time.  deserialize rejects a buffer that ends early and one with *)
(*   bytes left over.                                                      *)

SerTxIn(in) ==
    in.previous_output.txid \o <<in.previous_output.vout>>
        \o WriteVec(in.script_sig) \o <<in.sequence>>

SerTxOut(out) == <<out.value>> \o WriteVec(out.script_pubkey)

Serialize(t) ==
    <<t.version, Len(t.input)>>
        \o Concat([k \in 1..Len(t.input) |-> SerTxIn(t.input[k])])
        \o <<Len(t.output)>>
        \o Concat([k \in 1..Len(t.output) |-> SerTxOut(t.output[k])])
        \o Concat([k \in 1..Len(t.input) |-> WriteVec(t.input[k].witness)])
        \o <<t.lock_time>>

ReadTxIn(b, p) ==
    LET txid == ReadBytes(b, p, HashLen) IN
    IF ~txid.ok THEN Fail ELSE
    LET vout == ReadWord(b, txid.pos) IN
    IF ~vout.ok THEN Fail ELSE
    LET script == ReadVec(b, vout.pos) IN
    IF ~script.ok THEN Fail ELSE
    LET sequence == ReadWord(b, script.pos) IN
    IF ~sequence.ok THEN Fail ELSE
    [ok |-> TRUE, pos |-> sequence.pos,
     val |-> [previous_output |-> [txid |-> txid.val, vout |-> vout.val],
              script_sig |-> script.val,
              sequence |-> sequence.val,
              witness |-> <<>>]]

ReadTxOut(b, p) ==
    LET value == ReadWord(b, p) IN
    IF ~value.ok THEN Fail ELSE
    LET script == ReadVec(b, value.pos) IN
    IF ~script.ok THEN Fail ELSE
    [ok |-> TRUE, pos |-> script.pos,
     val |-> [value |-> value.val, script_pubkey |-> script.val]]

RECURSIVE ReadTxIns(_, _, _)
ReadTxIns(b, p, n) ==
    IF n = 0 THEN [ok |-> TRUE, pos |-> p, val |-> <<>>] ELSE
    LET first == ReadTxIn(b, p) IN
    IF ~first.ok THEN Fail ELSE
    LET rest == ReadTxIns(b, first.pos, n - 1) IN
    IF ~rest.ok THEN Fail ELSE
    [ok |-> TRUE, pos |-> rest.pos, val |-> <<first.val>> \o rest.val]

RECURSIVE ReadTxOuts(_, _, _)
ReadTxOuts(b, p, n) ==
    IF n = 0 THEN [ok |-> TRUE, pos |-> p, val |-> <<>>] ELSE
    LET first == ReadTxOut(b, p) IN
    IF ~first.ok THEN Fail ELSE
    LET rest == ReadTxOuts(b, first.pos, n - 1) IN
    IF ~rest.ok THEN Fail ELSE
    [ok |-> TRUE, pos |-> rest.pos, val |-> <<first.val>> \o rest.val]

\* n length-prefixed items: the witnesses of a transaction, the strings of a Vec<String>
RECURSIVE ReadVecs(_, _, _)
ReadVecs(b, p, n) ==
    IF n = 0 THEN [ok |-> TRUE, pos |-> p, val |-> <<>>] ELSE
    LET first == ReadVec(b, p) IN
    IF ~first.ok THEN Fail ELSE
    LET rest == ReadVecs(b, first.pos, n - 1) IN
    IF ~rest.ok THEN Fail ELSE
    [ok |-> TRUE, pos |-> rest.pos, val |-> <<first.val>> \o rest.val]

Deserialize(b) ==
    LET version == ReadWord(b, 1) IN
    IF ~version.ok THEN Fail ELSE
    LET nin == ReadWord(b, version.pos) IN
    IF ~nin.ok THEN Fail ELSE
    LET ins == ReadTxIns(b, nin.pos, nin.val) IN
    IF ~ins.ok THEN Fail ELSE
    LET nout == ReadWord(b, ins.pos) IN
    IF ~nout.ok THEN Fail ELSE
    LET outs == ReadTxOuts(b, nout.pos, nout.val) IN
    IF ~outs.ok THEN Fail ELSE
    LET wits == ReadVecs(b, outs.pos, nin.val) IN
    IF ~wits.ok THEN Fail ELSE
    LET lock == ReadWord(b, wits.pos) IN
    IF ~lock.ok \/ lock.pos /= Len(b) + 1 THEN Fail ELSE
    [ok |-> TRUE, pos |-> lock.pos,
     val |-> [version |-> version.val,
              lock_time |-> lock.val,
              input |-> [k \in 1..nin.val |->
                            [ins.val[k] EXCEPT !.witness = wits.val[k]]],
              output |-> outs.val]]

----------------------------------------------------------------------------
(* borsh of the two parameter structs.  borsh::from_slice rejects a buffer *)
(* that ends early and one with bytes left over.                           *)

BorshInscriptionParams(p) ==
    WriteVec(p.inscription_txid) \o <<p.inscription_vout>> \o WriteVec(p.user_swap_psbt)

BorshRuneParams(p) ==
    <<Len(p.rune_txids)>>
        \o Concat([k \in 1..Len(p.rune_txids) |-> WriteVec(p.rune_txids[k])])
        \o WriteVec(p.rune_vouts)
        \o WriteVec(p.user_swap_psbt)

FromSliceInscriptionParams(b) ==
    LET txid == ReadVec(b, 1) IN
    IF ~txid.ok THEN Fail ELSE
    LET vout == ReadWord(b, txid.pos) IN
    IF ~vout.ok THEN Fail ELSE
    LET psbt == ReadVec(b, vout.pos) IN
    IF ~psbt.ok \/ psbt.pos /= Len(b) + 1 THEN Fail ELSE
    [ok |-> TRUE, pos |-> psbt.pos,
     val |-> [inscription_txid |-> txid.val,
              inscription_vout |-> vout.val,
              user_swap_psbt |-> psbt.val]]

FromSliceRuneParams(b) ==
    LET n == ReadWord(b, 1) IN
    IF ~n.ok THEN Fail ELSE
    LET txids == ReadVecs(b, n.pos, n.val) IN
    IF ~txids.ok THEN Fail ELSE
    LET vouts == ReadVec(b, txids.pos) IN
    IF ~vouts.ok THEN Fail ELSE
    LET psbt == ReadVec(b, vouts.pos) IN
    IF ~psbt.ok \/ psbt.pos /= Len(b) + 1 THEN Fail ELSE
    [ok |-> TRUE, pos |-> psbt.pos,
     val |-> [rune_txids |-> txids.val,
              rune_vouts |-> vouts.val,
              user_swap_psbt |-> psbt.val]]

----------------------------------------------------------------------------
(* The calls tried: what a client may put in the accounts and in the       *)
(* instruction buffer.                                                     *)

\* a well-formed transaction id string, a different one for each k
GoodTxidStr(k) == [j \in 1..2 * HashLen |-> (k + j) % 16]

\* a string of the right length with a character that is no hexadecimal digit
BadCharTxidStr == [GoodTxidStr(1) EXCEPT ![2] = NonHex]

\* a string of hexadecimal digits, one character short
BadLenTxidStr == SubSeq(GoodTxidStr(1), 1, 2 * HashLen - 1)

\* the k-th input of a user transaction: all fields set, no two inputs alike
UserTxIn(k) ==
    [previous_output |-> [txid |-> [j \in 1..HashLen |-> 100 + k], vout |-> k],
     script_sig |-> <<40 + k>>,
     sequence |-> k,
     witness |-> <<50 + k, 60 + k>>]

\* the k-th output of a user transaction
UserTxOut(k) == [value |-> 10 + k, script_pubkey |-> <<20 + k>>]

\* a user transaction of m inputs and n outputs
UserTx(m, n) ==
    [version |-> 1, lock_time |-> 7,
     input |-> [k \in 1..m |-> UserTxIn(k)],
     output |-> [k \in 1..n |-> UserTxOut(k)]]

\* a user transaction that itself spends the custodial outpoint (GoodTxidStr(1), 1),
\* with an input equal in every field to the one the assembler builds
DoubleSpendTx ==
    [UserTx(1, 1) EXCEPT !.input =
        <<CustodialTxIn(TxidFromStr(GoodTxidStr(1)).val, 1)>> \o @]

UserTxs == {UserTx(m, n) : m \in 0..MaxUserIn, n \in 0..MaxUserOut} \cup {DoubleSpendTx}

\* user_swap_psbt: an encoded user transaction, one cut short, one with a byte too many
UserPsbts ==
    {Serialize(t) : t \in UserTxs}
        \cup {SubSeq(Serialize(UserTx(1, 1)), 1, Len(Serialize(UserTx(1, 1))) - 1),
              Serialize(UserTx(1, 1)) \o <<0>>}

InscriptionParamsTried ==
    [inscription_txid : {GoodTxidStr(1), BadCharTxidStr, BadLenTxidStr},
     inscription_vout : {0, 1},
     user_swap_psbt : UserPsbts]

\* n txids, those at the positions of bad malformed
RuneTxidsTried ==
    {[k \in 1..n |-> IF k \in bad THEN BadCharTxidStr ELSE GoodTxidStr(k)] :
        n \in 0..MaxRunes, bad \in SUBSET (1..MaxRunes)}

\* n vouts, no vout equal to its position
RuneVoutsTried == {[k \in 1..n |-> n + 1 - k] : n \in 0..MaxRunes + 1}

RuneParamsTried ==
    [rune_txids : RuneTxidsTried,
     rune_vouts : RuneVoutsTried,
     user_swap_psbt : UserPsbts]

PayloadsTried ==
    {BorshInscriptionParams(p) : p \in InscriptionParamsTried}
        \cup {BorshRuneParams(p) : p \in RuneParamsTried}
        \cup {<<>>}

InstructionsTried ==
    {<<>>} \cup {<<op>> \o payload : op \in {0, 1, 2}, payload \in PayloadsTried}

AccountsTried == {<<>>, <<"authority">>, <<"other", "authority">>}

----------------------------------------------------------------------------
(* State                                                                   *)

NoParams == [user_swap_psbt |-> <<>>]

Init ==
    /\ pc = "idle"
    /\ accounts = <<>>
    /\ instruction_data = <<>>
    /\ params = NoParams
    /\ user_swap_tx = NewTransaction
    /\ tx = NewTransaction
    /\ i = 0
    /\ user_input_count = 0
    /\ inputs_to_sign = <<>>
    /\ signed = <<>>
    /\ called = <<>>
    /\ log = <<>>
    /\ result = "pending"

\* the call leaves with r
Return(r) == pc' = "done" /\ result' = r

\* msg!(m)
Msg(m) == log' = Append(log, m)

\* the runtime calls the entrypoint with the client's accounts and instruction buffer
Invoke(a, d) ==
    /\ pc = "idle"
    /\ pc' = "process_instruction"
    /\ accounts' = a
    /\ instruction_data' = d
    /\ called' = Append(called, "process_instruction")
    /\ UNCHANGED <<params, user_swap_tx, tx, i, user_input_count, inputs_to_sign,
                   signed, log, result>>

\* a dispatch that sends every opcode but 0 to swap_rune_inscription
DispatchElseRune(opcode) ==
    IF opcode = 0 THEN "swap_inscription_rune" ELSE "swap_rune_inscription"

\* the arm of match instruction_data[0] that opcode selects
Dispatch(opcode) ==
    CASE opcode = 0 -> "swap_inscription_rune"
      [] opcode = 1 -> "swap_rune_inscription"
      [] OTHER -> "_"

\* process_instruction
ProcessInstruction ==
    /\ pc = "process_instruction"
    /\ IF instruction_data = <<>>
       THEN \* instruction_data[0] on an empty slice
            /\ Return("panic")
            /\ UNCHANGED <<called, log>>
       ELSE CASE Dispatch(instruction_data[1]) = "swap_inscription_rune" ->
                   /\ Msg("Processing Swap Inscription for Runes")
                   /\ called' = Append(called, "swap_inscription_rune")
                   /\ pc' = "insc_accounts"
                   /\ UNCHANGED result
              [] Dispatch(instruction_data[1]) = "swap_rune_inscription" ->
                   /\ Msg("Processing Swap Runes for Inscription")
                   /\ called' = Append(called, "swap_rune_inscription")
                   /\ pc' = "rune_accounts"
                   /\ UNCHANGED result
              [] OTHER ->
                   /\ Msg("Invalid instruction code provided")
                   /\ Return("Err(InvalidArgument)")
                   /\ UNCHANGED called
    /\ UNCHANGED <<accounts, instruction_data, params, user_swap_tx, tx, i,
                   user_input_count, inputs_to_sign, signed>>

\* the program's own id in place of the account's key
ProgramIdKey == "program_id"

\* let account = next_account_info(account_iter)?; account.key
AccountKey == accounts[1]

\* set_transaction_to_sign(accounts, tx_to_sign)
SetTransactionToSign(tx_to_sign) ==
    /\ signed' = Append(signed, tx_to_sign)
    /\ called' = Append(called, "set_transaction_to_sign")
    /\ Return("Ok")

----------------------------------------------------------------------------
(* swap_inscription_rune                                                   *)

\* if accounts.len() != 1 { return Err(ProgramError::Custom(501)); }
InscAccounts ==
    /\ pc = "insc_accounts"
    /\ IF Len(accounts) /= 1
       THEN Return("Err(Custom(501))")
       ELSE pc' = "insc_params" /\ UNCHANGED result
    /\ UNCHANGED <<accounts, instruction_data, params, user_swap_tx, tx, i,
                   user_input_count, inputs_to_sign, signed, called, log>>

\* borsh::from_slice(&instruction_data[1..]).map_err(|_e| ProgramError::InvalidArgument)?
InscParams ==
    /\ pc = "insc_params"
    /\ LET decoded == FromSliceInscriptionParams(Tail(instruction_data)) IN
       IF ~decoded.ok
       THEN Return("Err(InvalidArgument)") /\ UNCHANGED params
       ELSE pc' = "insc_user_tx" /\ params' = decoded.val /\ UNCHANGED result
    /\ UNCHANGED <<accounts, instruction_data, user_swap_tx, tx, i,
                   user_input_count, inputs_to_sign, signed, called, log>>

\* bitcoin::consensus::deserialize(&params.user_swap_psbt).unwrap(); let mut tx = Transaction {..}
InscUserTx ==
    /\ pc = "insc_user_tx"
    /\ LET decoded == Deserialize(params.user_swap_psbt) IN
       IF ~decoded.ok
       THEN Return("panic") /\ UNCHANGED <<user_swap_tx, tx, log>>
       ELSE /\ pc' = "insc_inscription"
            /\ user_swap_tx' = decoded.val
            /\ Msg("Processing user's swap transaction")
            /\ tx' = NewTransaction
            /\ UNCHANGED result
    /\ UNCHANGED <<accounts, instruction_data, params, i,
                   user_input_count, inputs_to_sign, signed, called>>

\* tx.input.push(TxIn { previous_output: OutPoint {
\*     txid: Txid::from_str(&params.inscription_txid).unwrap(),
\*     vout: params.inscription_vout as u32 }, .. })
InscPushInscription ==
    /\ pc = "insc_inscription"
    /\ LET txid == TxidFromStr(params.inscription_txid) IN
       IF ~txid.ok
       THEN Return("panic") /\ UNCHANGED <<tx, i>>
       ELSE /\ tx' = [tx EXCEPT !.input =
                         Append(@, CustodialTxIn(txid.val, params.inscription_vout))]
            /\ pc' = "insc_inputs"
            /\ i' = 0
            /\ UNCHANGED result
    /\ UNCHANGED <<accounts, instruction_data, params, user_swap_tx,
                   user_input_count, inputs_to_sign, signed, called, log>>

\* for input in &user_swap_tx.input { tx.input.push(input.clone()); }
InscCopyInputs ==
    /\ pc = "insc_inputs"
    /\ IF i < Len(user_swap_tx.input)
       THEN /\ tx' = [tx EXCEPT !.input = Append(@, user_swap_tx.input[i + 1])]
            /\ i' = i + 1
            /\ UNCHANGED pc
       ELSE /\ pc' = "insc_outputs"
            /\ i' = 0
            /\ UNCHANGED tx
    /\ UNCHANGED <<accounts, instruction_data, params, user_swap_tx,
                   user_input_count, inputs_to_sign, signed, called, log, result>>

\* for output in &user_swap_tx.output { tx.output.push(output.clone()); }
InscCopyOutputs ==
    /\ pc = "insc_outputs"
    /\ IF i < Len(user_swap_tx.output)
       THEN /\ tx' = [tx EXCEPT !.output = Append(@, user_swap_tx.output[i + 1])]
            /\ i' = i + 1
            /\ UNCHANGED <<pc, log>>
       ELSE /\ pc' = "insc_sign"
            /\ i' = 0
            /\ Msg("Constructed transaction")
            /\ UNCHANGED tx
    /\ UNCHANGED <<accounts, instruction_data, params, user_swap_tx,
                   user_input_count, inputs_to_sign, signed, called, result>>

\* a designation of every input of the transaction, the user's included
InscInputsToSignAll == [k \in 1..Len(tx.input) |-> InputToSign(k - 1, AccountKey)]

\* inputs_to_sign: &[InputToSign { index: 0, signer: account.key.clone() }]
InscInputsToSign == <<InputToSign(0, AccountKey)>>

\* let tx_to_sign = TransactionToSign { .. }; set_transaction_to_sign(accounts, tx_to_sign)
InscSign ==
    /\ pc = "insc_sign"
    /\ Msg("Transaction ready for signing")
    /\ SetTransactionToSign([tx_bytes |-> Serialize(tx),
                             inputs_to_sign |-> InscInputsToSign])
    /\ UNCHANGED <<accounts, instruction_data, params, user_swap_tx, tx, i,
                   user_input_count, inputs_to_sign>>

----------------------------------------------------------------------------
(* swap_rune_inscription                                                   *)

\* if accounts.len() != 1 { return Err(ProgramError::Custom(501)); }
RuneAccounts ==
    /\ pc = "rune_accounts"
    /\ IF Len(accounts) /= 1
       THEN Return("Err(Custom(501))")
       ELSE pc' = "rune_params" /\ UNCHANGED result
    /\ UNCHANGED <<accounts, instruction_data, params, user_swap_tx, tx, i,
                   user_input_count, inputs_to_sign, signed, called, log>>

\* borsh::from_slice(&instruction_data[1..]).map_err(|_e| ProgramError::InvalidArgument)?
RuneParams ==
    /\ pc = "rune_params"
    /\ LET decoded == FromSliceRuneParams(Tail(instruction_data)) IN
       IF ~decoded.ok
       THEN Return("Err(InvalidArgument)") /\ UNCHANGED params
       ELSE pc' = "rune_user_tx" /\ params' = decoded.val /\ UNCHANGED result
    /\ UNCHANGED <<accounts, instruction_data, user_swap_tx, tx, i,
                   user_input_count, inputs_to_sign, signed, called, log>>

\* bitcoin::consensus::deserialize(&params.user_swap_psbt).unwrap();
\* let mut tx = Transaction {..}; let mut user_input_count = 0;
RuneUserTx ==
    /\ pc = "rune_user_tx"
    /\ LET decoded == Deserialize(params.user_swap_psbt) IN
       IF ~decoded.ok
       THEN Return("panic") /\ UNCHANGED <<user_swap_tx, tx, log, i, user_input_count>>
       ELSE /\ pc' = "rune_inputs"
            /\ user_swap_tx' = decoded.val
            /\ Msg("Processing user's swap transaction")
            /\ tx' = NewTransaction
            /\ user_input_count' = 0
            /\ i' = 0
            /\ UNCHANGED result
    /\ UNCHANGED <<accounts, instruction_data, params, inputs_to_sign, signed, called>>

\* for input in &user_swap_tx.input { tx.input.push(input.clone()); user_input_count += 1; }
RuneCopyInputs ==
    /\ pc = "rune_inputs"
    /\ IF i < Len(user_swap_tx.input)
       THEN /\ tx' = [tx EXCEPT !.input = Append(@, user_swap_tx.input[i + 1])]
            /\ user_input_count' = user_input_count + 1
            /\ i' = i + 1
            /\ UNCHANGED pc
       ELSE /\ pc' = "rune_outputs"
            /\ i' = 0
            /\ UNCHANGED <<tx, user_input_count>>
    /\ UNCHANGED <<accounts, instruction_data, params, user_swap_tx,
                   inputs_to_sign, signed, called, log, result>>

\* for output in &user_swap_tx.output { tx.output.push(output.clone()); }
RuneCopyOutputs ==
    /\ pc = "rune_outputs"
    /\ IF i < Len(user_swap_tx.output)
       THEN /\ tx' = [tx EXCEPT !.output = Append(@, user_swap_tx.output[i + 1])]
            /\ i' = i + 1
            /\ UNCHANGED pc
       ELSE /\ pc' = "rune_runes"
            /\ i' = 0
            /\ UNCHANGED tx
    /\ UNCHANGED <<accounts, instruction_data, params, user_swap_tx, user_input_count,
                   inputs_to_sign, signed, called, log, result>>

\* a rune input put in front of the inputs, as the inscription input is
RunePushFront(inputs, txin) == <<txin>> \o inputs

\* tx.input.push(TxIn {..}) of the rune loop
RunePush(inputs, txin) == Append(inputs, txin)

\* a rune loop that passes over an entry it cannot use and goes on to the next
RuneAddRunesSkip ==
    /\ pc = "rune_runes"
    /\ IF i < Len(params.rune_txids)
       THEN LET txid == TxidFromStr(params.rune_txids[i + 1]) IN
            IF i >= Len(params.rune_vouts) \/ ~txid.ok
            THEN /\ Msg("Invalid txid format")
                 /\ i' = i + 1
                 /\ UNCHANGED <<tx, pc, result>>
            ELSE /\ tx' = [tx EXCEPT !.input =
                              RunePush(@, CustodialTxIn(txid.val, params.rune_vouts[i + 1]))]
                 /\ i' = i + 1
                 /\ UNCHANGED <<pc, log, result>>
       ELSE /\ pc' = "rune_to_sign"
            /\ i' = 0
            /\ Msg("Constructed transaction")
            /\ UNCHANGED <<tx, result>>
    /\ UNCHANGED <<accounts, instruction_data, params, user_swap_tx, user_input_count,
                   inputs_to_sign, signed, called>>

\* for (i, txid) in params.rune_txids.iter().enumerate() {
\*     let vout = params.rune_vouts.get(i).ok_or_else(..)?;
\*     tx.input.push(TxIn { previous_output: OutPoint {
\*         txid: Txid::from_str(txid).map_err(..)?, vout: *vout as u32 }, .. }); }
RuneAddRunes ==
    /\ pc = "rune_runes"
    /\ IF i < Len(params.rune_txids)
       THEN IF i >= Len(params.rune_vouts)
            THEN /\ Msg("Mismatch between rune_txids and rune_vouts")
                 /\ Return("Err(InvalidArgument)")
                 /\ UNCHANGED <<tx, i>>
            ELSE LET txid == TxidFromStr(params.rune_txids[i + 1]) IN
                 IF ~txid.ok
                 THEN /\ Msg("Invalid txid format")
                      /\ Return("Err(InvalidArgument)")
                      /\ UNCHANGED <<tx, i>>
                 ELSE /\ tx' = [tx EXCEPT !.input =
                                   RunePush(@, CustodialTxIn(txid.val, params.rune_vouts[i + 1]))]
                      /\ i' = i + 1
                      /\ UNCHANGED <<pc, log, result>>
       ELSE /\ pc' = "rune_to_sign"
            /\ i' = 0
            /\ Msg("Constructed transaction")
            /\ UNCHANGED <<tx, result>>
    /\ UNCHANGED <<accounts, instruction_data, params, user_swap_tx, user_input_count,
                   inputs_to_sign, signed, called>>

\* an index that counts the rune inputs only
RuneIndexFromZero(count, k) == k

\* index: user_input_count + i as u32 (u32 addition; the counts of one instruction
\* buffer stay far below 2^32, so it never wraps)
RuneIndex(count, k) == count + k

\* let mut inputs_to_sign = Vec::new();
\* for (i, _) in params.rune_txids.iter().enumerate() {
\*     inputs_to_sign.push(InputToSign { index: user_input_count + i as u32,
\*                                       signer: account.key.clone() }); }
RuneInputsToSign ==
    /\ pc = "rune_to_sign"
    /\ IF i < Len(params.rune_txids)
       THEN /\ inputs_to_sign' =
                  Append(inputs_to_sign, InputToSign(RuneIndex(user_input_count, i), AccountKey))
            /\ i' = i + 1
            /\ UNCHANGED pc
       ELSE /\ pc' = "rune_sign"
            /\ i' = 0
            /\ UNCHANGED inputs_to_sign
    /\ UNCHANGED <<accounts, instruction_data, params, user_swap_tx, tx, user_input_count,
                   signed, called, log, result>>

\* let tx_to_sign = TransactionToSign { .. }; set_transaction_to_sign(accounts, tx_to_sign)
RuneSign ==
    /\ pc = "rune_sign"
    /\ Msg("Transaction ready for signing")
    /\ SetTransactionToSign([tx_bytes |-> Serialize(tx),
                             inputs_to_sign |-> inputs_to_sign])
    /\ UNCHANGED <<accounts, instruction_data, params, user_swap_tx, tx, i,
                   user_input_count, inputs_to_sign>>

----------------------------------------------------------------------------

Next ==
    \/ \E a \in AccountsTried, d \in InstructionsTried : Invoke(a, d)
    \/ ProcessInstruction
    \/ InscAccounts
    \/ InscParams
    \/ InscUserTx
    \/ InscPushInscription
    \/ InscCopyInputs
    \/ InscCopyOutputs
    \/ InscSign
    \/ RuneAccounts
    \/ RuneParams
    \/ RuneUserTx
    \/ RuneCopyInputs
    \/ RuneCopyOutputs
    \/ RuneAddRunes
    \/ RuneInputsToSign
    \/ RuneSign

Spec == Init /\ [][Next]_vars

----------------------------------------------------------------------------
(* What a call was given and what it produced, for the properties below    *)

Range(s) == {s[k] : k \in 1..Len(s)}

Done == pc = "done"

IsErr(r) == r \in {"Err(Custom(501))", "Err(InvalidArgument)"}

\* the assembler the dispatch entered
RanInsc == "swap_inscription_rune" \in Range(called)
RanRune == "swap_rune_inscription" \in Range(called)

\* the parameter struct carried by the instruction buffer
InscArgs == FromSliceInscriptionParams(Tail(instruction_data))
RuneArgs == FromSliceRuneParams(Tail(instruction_data))

\* the call reached the assembler with one account and decodable parameters
InscEntered == RanInsc /\ Len(accounts) = 1 /\ InscArgs.ok
RuneEntered == RanRune /\ Len(accounts) = 1 /\ RuneArgs.ok

\* the user's partial transaction, decoded
InscUser == Deserialize(InscArgs.val.user_swap_psbt)
RuneUser == Deserialize(RuneArgs.val.user_swap_psbt)

\* a fresh input spending (txid string, vout): empty script, empty witness, final sequence
FreshInput(txidStr, vout) ==
    [previous_output |-> [txid |-> TxidFromStr(txidStr).val, vout |-> vout],
     script_sig |-> <<>>,
     sequence |-> MaxWord,
     witness |-> <<>>]

\* the custodial input the assembler is to build
InscCustodial == FreshInput(InscArgs.val.inscription_txid, InscArgs.val.inscription_vout)
RuneCustodial(k) == FreshInput(RuneArgs.val.rune_txids[k], RuneArgs.val.rune_vouts[k])

\* valid InscriptionSwapParams / RuneSwapParams
ValidInsc ==
    /\ InscEntered
    /\ InscUser.ok
    /\ TxidFromStr(InscArgs.val.inscription_txid).ok
ValidRune ==
    /\ RuneEntered
    /\ RuneUser.ok
    /\ Len(RuneArgs.val.rune_txids) = Len(RuneArgs.val.rune_vouts)
    /\ \A k \in 1..Len(RuneArgs.val.rune_txids) : TxidFromStr(RuneArgs.val.rune_txids[k]).ok

\* the request set_transaction_to_sign received, and the transaction in it
HandedOff == signed /= <<>>
Request == signed[1]
Produced == Deserialize(Request.tx_bytes)

\* the 0-based input indices the request designates
Designated == {Request.inputs_to_sign[k].index : k \in 1..Len(Request.inputs_to_sign)}

----------------------------------------------------------------------------
(* Properties                                                              *)

\* the positions (0-based) of the custodial inputs and of the user's inputs in the
\* transaction of a successful call
CustodialPositions ==
    IF RanInsc THEN {0}
    ELSE {Len(RuneUser.val.input) + k - 1 : k \in 1..Len(RuneArgs.val.rune_txids)}
UserPositions ==
    IF RanInsc THEN 1..Len(InscUser.val.input)
    ELSE {k - 1 : k \in 1..Len(RuneUser.val.input)}
CustodialAt(c) ==
    IF RanInsc THEN InscCustodial ELSE RuneCustodial(c - Len(RuneUser.val.input) + 1)

\* C1: in every successful call of either assembler, every designation (i, s) handed
\* to set_transaction_to_sign has i a valid index of the produced transaction's
\* inputs, the input at i is the custodial input built from the supplied (txid, vout),
\* and s is the key of the single account; no position holding a user input is
\* designated and every custodial position is designated exactly once.
C1_OnlyCustodialInputsDesignated ==
    (Done /\ result = "Ok") =>
        /\ HandedOff
        /\ Produced.ok
        /\ Len(accounts) = 1
        /\ \A k \in 1..Len(Request.inputs_to_sign) :
              LET d == Request.inputs_to_sign[k] IN
              /\ d.index < Len(Produced.val.input)
              /\ d.index \in CustodialPositions
              /\ Produced.val.input[d.index + 1] = CustodialAt(d.index)
              /\ d.signer = accounts[1]
        /\ \A c \in CustodialPositions :
              Cardinality({k \in 1..Len(Request.inputs_to_sign) :
                              Request.inputs_to_sign[k].index = c}) = 1
        /\ Designated \cap UserPositions = {}

\* a successful rune call with a user input and two rune inputs, and a successful
\* inscription call is covered by the same formula
C1_Witness ==
    /\ Done /\ result = "Ok" /\ RanRune
    /\ Len(RuneUser.val.input) >= 1
    /\ Len(RuneArgs.val.rune_txids) >= 2
    /\ Len(Request.inputs_to_sign) >= 2

\* C2: for valid RuneSwapParams with N pairs and a user transaction of M inputs, the
\* Rune->Inscription assembler produces a transaction of M + N inputs, the first M
\* the user's inputs in order, the last N spending the custodial outpoints in pair
\* order, and with the user's outputs in order and content.
C2_RuneTransactionShape ==
    (Done /\ ValidRune) =>
        /\ result = "Ok"
        /\ HandedOff
        /\ Produced.ok
        /\ LET M == Len(RuneUser.val.input)
               N == Len(RuneArgs.val.rune_txids)
           IN /\ Len(Produced.val.input) = M + N
              /\ \A k \in 1..M : Produced.val.input[k] = RuneUser.val.input[k]
              /\ \A k \in 1..N :
                    Produced.val.input[M + k].previous_output =
                        [txid |-> TxidFromStr(RuneArgs.val.rune_txids[k]).val,
                         vout |-> RuneArgs.val.rune_vouts[k]]
              /\ Produced.val.output = RuneUser.val.output

C2_Witness ==
    /\ Done /\ ValidRune /\ HandedOff
    /\ Len(RuneUser.val.input) >= 2
    /\ Len(RuneUser.val.output) >= 1
    /\ Len(RuneArgs.val.rune_txids) >= 2

\* C3: for valid RuneSwapParams with N pairs and M user inputs, the designation list
\* of the Rune->Inscription assembler has exactly N entries, in order, with indices
\* M, M+1, ..., M+N-1, each with the authority as signer (empty when N = 0).
C3_RuneDesignations ==
    (Done /\ ValidRune) =>
        /\ HandedOff
        /\ LET M == Len(RuneUser.val.input)
               N == Len(RuneArgs.val.rune_txids)
           IN Request.inputs_to_sign =
                  [k \in 1..N |-> [index |-> M + k - 1, signer |-> accounts[1]]]

C3_Witness ==
    /\ Done /\ ValidRune /\ HandedOff
    /\ Len(RuneUser.val.input) >= 1
    /\ Len(Request.inputs_to_sign) >= 2

\* C4: for valid InscriptionSwapParams and a user transaction of M inputs, the
\* Inscription->Rune assembler produces a transaction of 1 + M inputs, input 0
\* spending the custodial outpoint (inscription txid, inscription vout), inputs 1..M
\* the user's inputs in order, and the outputs the user's outputs in order and content.
C4_InscTransactionShape ==
    (Done /\ ValidInsc) =>
        /\ result = "Ok"
        /\ HandedOff
        /\ Produced.ok
        /\ LET M == Len(InscUser.val.input)
           IN /\ Len(Produced.val.input) = 1 + M
              /\ Produced.val.input[1].previous_output =
                    [txid |-> TxidFromStr(InscArgs.val.inscription_txid).val,
                     vout |-> InscArgs.val.inscription_vout]
              /\ \A k \in 1..M : Produced.val.input[1 + k] = InscUser.val.input[k]
              /\ Produced.val.output = InscUser.val.output

C4_Witness ==
    /\ Done /\ ValidInsc /\ HandedOff
    /\ Len(InscUser.val.input) >= 2
    /\ Len(InscUser.val.output) >= 1
    /\ InscArgs.val.inscription_vout = 1

\* C5: for valid InscriptionSwapParams, whatever the numbers of user inputs and
\* outputs (zero included), the designation list of the Inscription->Rune assembler
\* is the one entry (0, authority).
C5_InscDesignation ==
    (Done /\ ValidInsc) =>
        /\ HandedOff
        /\ Request.inputs_to_sign = <<[index |-> 0, signer |-> accounts[1]]>>

C5_Witness ==
    /\ Done /\ ValidInsc /\ HandedOff
    /\ Len(InscUser.val.input) = 0
    /\ Len(InscUser.val.output) = 0

\* C6 (as claimed): every Rune->Inscription call whose rune_txids and rune_vouts
\* differ in length, vouts shorter or longer, fails with the parameter-mismatch
\* error and hands nothing to set_transaction_to_sign.  Stated of the calls that are
\* valid but for the lengths.
C6_LengthMismatchFails ==
    (/\ Done
     /\ RuneEntered
     /\ RuneUser.ok
     /\ \A k \in 1..Len(RuneArgs.val.rune_txids) : TxidFromStr(RuneArgs.val.rune_txids[k]).ok
     /\ Len(RuneArgs.val.rune_txids) /= Len(RuneArgs.val.rune_vouts)) =>
        /\ result = "Err(InvalidArgument)"
        /\ log[Len(log)] = "Mismatch between rune_txids and rune_vouts"
        /\ ~HandedOff

\* C7 (as claimed): in both assemblers a call whose partial-transaction bytes do not
\* decode ends with an error value returned to the caller, not with a panic, and
\* nothing is constructed or handed to set_transaction_to_sign.
C7_UndecodablePsbtIsError ==
    (/\ Done
     /\ \/ InscEntered /\ ~InscUser.ok
        \/ RuneEntered /\ ~RuneUser.ok) =>
        /\ IsErr(result)
        /\ tx = NewTransaction
        /\ ~HandedOff

\* the failing entry of a rune call: its vout is missing or its txid is malformed
RuneFailsAt(k) ==
    /\ k \in 1..Len(RuneArgs.val.rune_txids)
    /\ \/ k > Len(RuneArgs.val.rune_vouts)
       \/ ~TxidFromStr(RuneArgs.val.rune_txids[k]).ok

\* the transaction is complete: every custodial input, user input and user output is in
Complete ==
    IF RanInsc
    THEN /\ Len(tx.input) = 1 + Len(user_swap_tx.input)
         /\ tx.output = user_swap_tx.output
    ELSE /\ Len(tx.input) = Len(user_swap_tx.input) + Len(params.rune_txids)
         /\ tx.output = user_swap_tx.output

\* C8: in either assembler set_transaction_to_sign is called at most once per call and
\* only as the last step, on the complete transaction; when the account-count check,
\* the parameter decode, a vout lookup or a txid decode at any pair position fails,
\* the call returns an error and the hand-off never happens.
C8_HandOffLastOrNever ==
    /\ Len(signed) <= 1
    /\ Cardinality({k \in 1..Len(called) : called[k] = "set_transaction_to_sign"}) = Len(signed)
    /\ HandedOff =>
          /\ Done /\ result = "Ok"
          /\ called[Len(called)] = "set_transaction_to_sign"
          /\ Complete
          /\ Request.tx_bytes = Serialize(tx)
    /\ (Done /\ result /= "Ok") => ~HandedOff
    /\ (Done /\ (RanInsc \/ RanRune) /\ Len(accounts) /= 1) => result = "Err(Custom(501))"
    /\ (Done /\ RanInsc /\ Len(accounts) = 1 /\ ~InscArgs.ok) => result = "Err(InvalidArgument)"
    /\ (Done /\ RanRune /\ Len(accounts) = 1 /\ ~RuneArgs.ok) => result = "Err(InvalidArgument)"
    /\ (Done /\ RuneEntered /\ RuneUser.ok /\ \E k \in 1..Len(RuneArgs.val.rune_txids) : RuneFailsAt(k))
          => result = "Err(InvalidArgument)"

\* a rune call that fails at the second pair, after the first rune input was appended
C8_Witness ==
    /\ Done /\ RuneEntered /\ RuneUser.ok
    /\ ~RuneFailsAt(1) /\ RuneFailsAt(2)
    /\ Len(tx.input) = Len(user_swap_tx.input) + 1
    /\ IsErr(result)
    /\ ~HandedOff

\* C9 (as claimed): an Inscription->Rune call whose inscription txid string is
\* malformed ends with an error value returned to the caller, as a malformed rune
\* txid does in the Rune->Inscription assembler, and nothing is handed off.
C9_MalformedInscriptionTxidIsError ==
    (/\ Done
     /\ InscEntered
     /\ InscUser.ok
     /\ ~TxidFromStr(InscArgs.val.inscription_txid).ok) =>
        /\ IsErr(result)
        /\ ~HandedOff

\* C10: a buffer whose leading opcode is neither 0 nor 1 fails with the
\* unknown-operation error, no assembler runs and nothing is handed off; opcode 0 runs
\* only the Inscription->Rune assembler and opcode 1 only the Rune->Inscription one.
C10_Dispatch ==
    (instruction_data /= <<>> /\ pc \notin {"idle", "process_instruction"}) =>
        CASE instruction_data[1] = 0 -> RanInsc /\ ~RanRune
          [] instruction_data[1] = 1 -> RanRune /\ ~RanInsc
          [] OTHER ->
                /\ Done
                /\ result = "Err(InvalidArgument)"
                /\ log = <<"Invalid instruction code provided">>
                /\ called = <<"process_instruction">>
                /\ ~HandedOff

C10_Witness ==
    /\ Done
    /\ Len(instruction_data) > 1
    /\ instruction_data[1] = 2
    /\ result = "Err(InvalidArgument)"

====
